---- MODULE Spec2Model ----
(***************************************************************************)
(* A model of the c-mpsc channel (src/src/mpsc.c): one mutex, one main     *)
(* condition variable for the consumer thread, one private condition       *)
(* variable per producer, a single message slot and a FIFO wait queue.     *)
(*                                                                         *)
(* Threads: the creator ("main") thread, the consumer thread and one       *)
(* thread per registered producer.  Every critical section of mpsc.c is    *)
(* one step: it is enabled when the mutex is free, runs the code from the  *)
(* lock to the point where the mutex is released (an unlock or a           *)
(* pthread_cond_wait) and leaves the mutex with the holder the code        *)
(* leaves it with.  The user callbacks (consumer callback, error callback, *)
(* producer task) are states of their thread in which the user code may    *)
(* call the public API.                                                    *)
(*                                                                         *)
(* A fatal path (abort()) ends the process: the thread that called abort()  *)
(* stops in a state that names the diagnostic and every other thread that   *)
(* exists stops in "aborted"; no thread takes a step afterwards.           *)
(***************************************************************************)
EXTENDS Integers, Sequences, FiniteSets, TLC

\* ------------------------------------------------------------------ bounds
\* n_max_producers of mpsc_create_params_t
MaxProducers == 2
\* buffer_size of mpsc_create_params_t
BufSize == 1
\* number of API calls (send, ping, register_producer) one producer task makes
MaxOps == 2
\* number of API calls all producer tasks make together (under WideSpec
\* every task makes its MaxOps calls)
MaxTotalOps == 3
\* number of register_producer calls made over the channel's life, by anyone
MaxRegCalls == 3
\* number of mpsc_consumer_close calls the consumer callback makes
MaxCloses == 1
\* under FairSpec: number of API calls all producer tasks make together
LiveOps == 3
\* under FairSpec: number of register_producer calls made, by anyone
LiveRegCalls == 2

\* ------------------------------------------------------------- thread ids
\* producers are 0 .. MaxProducers-1 (their index in self->producers)
NoThread == 0 - 3
ConsT == 0 - 2
MainT == 0 - 1
\* next_waiting_producer_id = -1: nobody is elected (mpsc.c:153)
NoProducer == 0 - 1

Producers == 0 .. (MaxProducers - 1)

VARIABLES
    \* ---- struct mpsc_s
    error_handling_enabled,    \* TRUE: "report" policy, FALSE: "abort" policy
    create_and_join_thread_safety_disabled,
    callBudget,                \* the number of API calls the producer tasks make
                               \* together in this run, at most
    buffer,                    \* the slot: BufSize bytes
    n,                         \* length of the message in the slot
    pending_message,
    joined,
    closed,
    n_producers_closed,
    producer_waiting_ids_queue,   \* its length is n_producers_waiting
    next_waiting_producer_id,
    producer_count,
    done,                      \* producers[i].done
    mutex,                     \* the thread holding self->mutex, or NoThread
    \* ---- threads
    mpc,                       \* creator thread
    ji,                        \* loop index of mpsc_join's producer loop
    cpc,                       \* consumer thread
    cbKind,                    \* the callback the consumer thread is in
    ppc,                       \* producer threads
    curN,                      \* n of the send call producer i is in
    ops,                       \* API calls made so far by producer i's task
    regCalls,                  \* register_producer calls made so far
    mainOk,                    \* the creator has registered a producer
    closeCalls,                \* mpsc_consumer_close calls made so far
    \* ---- history (never read by the program)
    sends,                     \* per producer: its returned send calls
    slotId,                    \* the send call whose message is in the slot
    enq,                       \* the send calls that entered the wait queue and whose
                               \* message is neither delivered nor refused, in order
    cbLog,                     \* the consumer callbacks invoked, in order
    pings,                     \* the ping calls returned, in order
    closeSlot,                 \* the send call whose message was pending when
                               \* mpsc_consumer_close closed the channel
    closeAt,                   \* the number of callbacks invoked when
                               \* mpsc_consumer_close was first called (0: never)
    lastReg,                   \* the value register_producer returned, in the state
                               \* that follows its return ("-" in every other state)
    \* ---- the resources of the channel (heap blocks, mutex, condition
    \* variables, consumer thread), each named by the step of mpsc_create
    \* that acquires it
    junk,                      \* per pointer member of struct mpsc_s: the bytes
                               \* malloc returned for it are not zero
    acquired,                  \* the resources acquired so far
    released,                  \* per resource: how often it was freed / destroyed
    wildFree,                  \* the pointer members that were passed to free()
                               \* without having been assigned
    errno,
    fault,                     \* the step of mpsc_create that fails and the error
                               \* it fails with (step 0: none does)
    joinCalls                  \* mpsc_join calls made so far, by any thread

chanVars == <<error_handling_enabled, buffer, n, pending_message, joined, closed,
              n_producers_closed, producer_waiting_ids_queue,
              next_waiting_producer_id, producer_count, done>>
regHist == <<closeAt>>
histVars == <<sends, slotId, enq, cbLog, pings, closeSlot, closeAt>>
vars == <<error_handling_enabled, buffer, n, pending_message, joined, closed,
          n_producers_closed, producer_waiting_ids_queue,
          next_waiting_producer_id, producer_count, done, mutex,
          mpc, ji, cpc, cbKind, ppc, curN, ops, regCalls, mainOk, closeCalls,
          sends, slotId, enq, cbLog, pings, closeSlot, closeAt, lastReg,
          create_and_join_thread_safety_disabled, callBudget, junk, acquired, released,
          wildFree, errno, fault, joinCalls>>
\* what only mpsc_create, mpsc_join and mpsc_destroy touch
createVars == <<create_and_join_thread_safety_disabled, callBudget, junk, acquired, released,
                wildFree, errno, fault, joinCalls>>

\* ---------------------------------------------------------------- helpers
\* The payload of the k-th send call of producer i: n bytes, all equal to a
\* value that identifies the call.
Tag(i, k) == i * (MaxOps + 1) + k
Payload(i, k, len) == [x \in 1 .. len |-> Tag(i, k)]
\* the identity of the send call producer i is in
CurId(i) == <<i, Len(sends[i]) + 1>>
NoId == <<NoProducer, 0>>
\* sequence s without the element x
Remove(s, x) == SelectSeq(s, LAMBDA y : y # x)

\* memcpy(dst, src, len): the first len bytes of dst are overwritten
memcpy(dst, src, len) == [x \in 1 .. Len(dst) |-> IF x <= len THEN src[x] ELSE dst[x]]

\* my_condition_variable_signal(&self->condition_variable): the consumer is
\* the only thread that waits on it; a signal with no waiter is lost.
SignalMain(c) == IF c = "wait" THEN "woken" ELSE c

\* my_condition_variable_signal(&producer_condition_variables[i])
SignalProducer(p, i) == IF p[i] = "wait" THEN [p EXCEPT ![i] = "woken"] ELSE p

\* ------------------------------------------------------------- resources
\* The steps of mpsc_create that acquire a resource, in the order of the
\* code (mpsc.c:114, 125, 132, 137, 142, 147, 161, 167 once per producer,
\* 172, 177).  A resource is named by the position of its step.
Steps ==
    <<"self", "buffer", "producer_thread_ids", "producers",
      "producer_condition_variables", "producer_waiting_ids_queue",
      "condition_variable">>
    \o [i \in 1 .. MaxProducers |-> "producer_cv"]
    \o <<"mutex", "consumer_thread">>
AllSteps == 1 .. Len(Steps)
StepsOf(kinds) == {k \in AllSteps : Steps[k] \in kinds}
\* the steps that call my_malloc
Mallocs ==
    StepsOf({"self", "buffer", "producer_thread_ids", "producers",
             "producer_condition_variables", "producer_waiting_ids_queue"})
\* the pointer members of struct mpsc_s (mpsc.c:84, 104-108)
Members == Mallocs \ StepsOf({"self"})

NoFault == [step |-> 0, cause |-> "none"]

\* what mpsc_destroy destroys and frees (mpsc.c:432-443): everything but the
\* thread, which mpsc_join has joined
DestroyedByDestroy == AllSteps \ StepsOf({"consumer_thread"})
mpsc_destroy(rel) == [k \in AllSteps |-> IF k \in DestroyedByDestroy THEN rel[k] + 1 ELSE rel[k]]

\* the state of a channel mpsc_create has returned (mpsc.c:130-131, 152-159)
InitChannel ==
    /\ buffer = [x \in 1 .. BufSize |-> 0]
    /\ n = 0
    /\ pending_message = FALSE
    /\ joined = FALSE
    /\ closed = FALSE
    /\ n_producers_closed = 0
    /\ producer_waiting_ids_queue = <<>>
    /\ next_waiting_producer_id = NoProducer
    /\ producer_count = 0
    /\ done = [i \in Producers |-> FALSE]
    /\ mutex = NoThread
    /\ ji = 0
    /\ cbKind = "none"
    /\ ppc = [i \in Producers |-> "unborn"]
    /\ curN = [i \in Producers |-> 0]
    /\ ops = [i \in Producers |-> 0]
    /\ regCalls = 0
    /\ mainOk = FALSE
    /\ closeCalls = 0
    /\ sends = [i \in Producers |-> <<>>]
    /\ slotId = NoId
    /\ enq = <<>>
    /\ cbLog = <<>>
    /\ pings = <<>>
    /\ closeSlot = NoId
    /\ closeAt = 0
    /\ lastReg = "-"

\* mpsc_create has returned a channel: every resource is held, the creator
\* goes on, the consumer thread is at the top of its loop
Created ==
    /\ mpc = "run"
    /\ cpc = "top"
    /\ junk = [f \in Members |-> FALSE]
    /\ acquired = AllSteps
    /\ released = [k \in AllSteps |-> 0]
    /\ wildFree = {}
    /\ errno = "none"
    /\ fault = NoFault
    /\ joinCalls = 0

\* The channel as mpsc_create returned it, under either policy, with the
\* check of the joining thread in force (the default of every example).
Init ==
    /\ error_handling_enabled \in BOOLEAN
    /\ callBudget = MaxTotalOps
    /\ create_and_join_thread_safety_disabled = FALSE
    /\ InitChannel
    /\ Created

\* ------------------------------------------------------------ environment
\* malloc in the consumer loop (mpsc.c:599, my_malloc 784-802) succeeds or
\* fails with ENOMEM.  Only called for len > 0.
MallocOutcomes(len) == IF len > 0 THEN {TRUE, FALSE} ELSE {TRUE}

\* my_malloc, mpsc.c:787-800: with error handling enabled an ENOMEM failure
\* is returned as NULL, without it the failure aborts the process
MallocFailureReturns == error_handling_enabled

\* pthread_create in register_producer (my_thread_create, mpsc.c:765)
\* succeeds or fails with EAGAIN.
ThreadCreateOutcomes == {TRUE, FALSE}

\* abort(), called by thread t with the mutex held: the process ends.  The
\* caller stops in the state why, every other living thread in "aborted".
Stopped(c) == IF c \in {"unborn", "exited", "done"} THEN c ELSE "aborted"
abort(t, why) ==
    /\ mpc' = IF t = MainT THEN why ELSE Stopped(mpc)
    /\ cpc' = IF t = ConsT THEN why ELSE Stopped(cpc)
    /\ ppc' = [j \in Producers |-> IF j = t THEN why ELSE Stopped(ppc[j])]
    /\ mutex' = t

\* the process has been ended by abort()
Aborted ==
    \/ mpc \in {"aborted", "abort_spawn", "abort_thread", "abort_join", "abort_empty",
                "abort_lock"}
    \/ cpc \in {"aborted", "abort_spawn", "abort_malloc", "abort_thread", "abort_join"}
    \/ \E j \in Producers :
         ppc[j] \in {"aborted", "abort_spawn", "abort_send", "abort_thread", "abort_join",
                    "abort_subscribe", "abort_shift"}

\* ------------------------------------------------------------ mpsc_create
\* The error a failing step fails with.  malloc fails with ENOMEM;
\* pthread_cond_init and pthread_mutex_init fail with ENOMEM or EAGAIN for a
\* lack of resources, pthread_mutex_init also with EPERM; pthread_create
\* fails with EAGAIN.
Causes(kind) ==
    IF kind = "mutex" THEN {"ENOMEM", "EAGAIN", "EPERM"}
    ELSE IF kind \in {"condition_variable", "producer_cv"} THEN {"ENOMEM", "EAGAIN"}
    ELSE IF kind = "consumer_thread" THEN {"EAGAIN"}
    ELSE {"ENOMEM"}

\* the failures the environment can inject into mpsc_create
Faults ==
    {NoFault} \cup
    {[step |-> k, cause |-> c] : k \in AllSteps, c \in {"ENOMEM", "EAGAIN", "EPERM"}}
PossibleFaults == {f \in Faults : f = NoFault \/ f.cause \in Causes(Steps[f.step])}

\* my_malloc (mpsc.c:789-794), my_condition_variable_init (734-740),
\* my_mutex_init (700-706), my_thread_create (768-774): the failure is
\* returned to mpsc_create; every other failure aborts
FailureReturns(kind, cause, handle_errors) ==
    /\ handle_errors
    /\ IF kind = "mutex" THEN cause = "ENOMEM"
       ELSE IF kind \in {"condition_variable", "producer_cv"}
       THEN cause \in {"ENOMEM", "EAGAIN"}
       ELSE IF kind = "consumer_thread" THEN cause = "EAGAIN"
       ELSE cause = "ENOMEM"

\* errno after the failing call: malloc sets it; the my_ wrappers of the
\* pthread functions set it when they return the failure (704, 738, 772)
ErrnoAfter(kind, cause, returns) ==
    IF kind \in {"mutex", "condition_variable", "producer_cv", "consumer_thread"} /\ ~returns
    THEN errno ELSE cause

\* mpsc.c:470-504: the mutex and condition variables that
\* mpsc_handle_creation_failure destroys, by the type and the
\* producer_cond_var_index mpsc_create passes for the failing step
DestroyedByFailure(fail) ==
    IF Steps[fail] = "consumer_thread"
    THEN StepsOf({"mutex", "condition_variable", "producer_cv"})
    ELSE IF Steps[fail] = "mutex"
    THEN StepsOf({"condition_variable", "producer_cv"})
    ELSE IF Steps[fail] = "producer_cv"
    THEN StepsOf({"condition_variable"}) \cup {k \in StepsOf({"producer_cv"}) : k < fail}
    ELSE {}

\* The value of a pointer member of *self when mpsc_handle_creation_failure
\* reads it: the block allocated for it, NULL when its malloc is the one
\* that failed, and otherwise whatever malloc left in the bytes of *self
\* (mpsc.c:114: the struct is not zeroed), NULL or not.
MemberValue(f, fail) ==
    IF f < fail THEN "block"
    ELSE IF f = fail THEN "null"
    ELSE IF junk[f] THEN "wild" ELSE "null"

\* mpsc.c:505-524: the order in which the members are tested and freed
FreeOrder ==
    <<"producer_condition_variables", "producer_waiting_ids_queue", "producers",
      "producer_thread_ids", "buffer">>
Member(p) == CHOOSE f \in Members : Steps[f] = FreeOrder[p]

\* the members freed by the first upto tests of mpsc.c:505-524
FreedByFailure(fail, upto) ==
    {Member(p) : p \in {q \in 1 .. upto : MemberValue(Member(q), fail) = "block"}}

\* the members passed to free() without ever having been assigned
WildByFailure(fail) == {f \in Members : MemberValue(f, fail) = "wild"}

\* What dereferencing self = NULL (mpsc.c:505, after the first malloc
\* failed) and freeing a pointer that was never allocated can do: the
\* process is killed there, or the call goes on.
UndefinedOutcomes(fail) ==
    {"returns"}
    \cup (IF Steps[fail] = "self" THEN {"segv"} ELSE {})
    \cup (IF WildByFailure(fail) # {} THEN {"badfree"} ELSE {})

Count(rel, set) == [k \in AllSteps |-> IF k \in set THEN rel[k] + 1 ELSE rel[k]]

\* mpsc_handle_creation_failure: mpsc.c:446-531
mpsc_handle_creation_failure(fail, cause) ==
    \E out \in UndefinedOutcomes(fail) :
        /\ errno' = cause
        /\ IF out = "segv"
           THEN \* 505: killed before anything is freed
                /\ mpc' = "crashed"
                /\ released' = Count(released, DestroyedByFailure(fail))
                /\ wildFree' = wildFree
           ELSE IF out = "badfree"
           THEN \* killed by the first free() of a pointer never allocated
                LET first == CHOOSE p \in 1 .. Len(FreeOrder) :
                                 /\ Member(p) \in WildByFailure(fail)
                                 /\ \A q \in 1 .. (p - 1) : Member(q) \notin WildByFailure(fail)
                IN /\ mpc' = "crashed"
                   /\ released' = Count(released, DestroyedByFailure(fail)
                                                   \cup FreedByFailure(fail, first - 1))
                   /\ wildFree' = {Member(first)}
           ELSE \* 505-530: the members that are not NULL, then self unless NULL
                /\ mpc' = "create_null"
                /\ released' = Count(released,
                                     DestroyedByFailure(fail)
                                     \cup FreedByFailure(fail, Len(FreeOrder))
                                     \cup (IF Steps[fail] = "self" THEN {} ELSE StepsOf({"self"})))
                /\ wildFree' = WildByFailure(fail)

\* mpsc_create: mpsc.c:111-182, with the failure the environment injects
mpsc_create ==
    /\ mpc = "create"
    /\ IF fault = NoFault
       THEN \* 181: the channel is returned, the consumer thread runs
            /\ mpc' = "run" /\ cpc' = "top"
            /\ acquired' = AllSteps
            /\ junk' = [f \in Members |-> FALSE]
            /\ UNCHANGED <<released, wildFree, errno>>
       ELSE LET kind == Steps[fault.step]
                returns == FailureReturns(kind, fault.cause, error_handling_enabled)
            IN /\ acquired' = 1 .. (fault.step - 1)
               /\ UNCHANGED <<cpc, junk>>
               /\ IF returns
                  THEN mpsc_handle_creation_failure(fault.step, fault.cause)
                  ELSE \* the my_ wrapper prints the diagnostic and aborts
                       /\ mpc' = "abort_create"
                       /\ errno' = ErrnoAfter(kind, fault.cause, returns)
                       /\ UNCHANGED <<released, wildFree>>
    /\ UNCHANGED <<chanVars, histVars, mutex, ji, cbKind, ppc, curN, ops, regCalls,
                   mainOk, closeCalls, lastReg,
                   create_and_join_thread_safety_disabled, callBudget, fault, joinCalls>>

\* --------------------------------------------------- conditions of mpsc.c
\* mutant: the election is not looked at
SendMustWait_NoElectionCheck == pending_message

\* mutant: a closed channel is looked at first
SendAborts_UnlessClosed(len) == len > BufSize /\ ~closed

\* mpsc.c:296: n > buffer_size is fatal
SendAborts(len) == len > BufSize

\* mpsc.c:313
SendMustWait == pending_message \/ next_waiting_producer_id # NoProducer

\* mutant: the loop is left when any producer is elected
WaitLoopCond_AnyElected(i) == ~closed /\ next_waiting_producer_id = NoProducer

\* mpsc.c:317-319, the condition of the producer's wait loop
WaitLoopCond(i) == ~closed /\ next_waiting_producer_id # i

\* mpsc.c:582-584, the condition of the consumer's wait loop
ConsumerMustWait == ~pending_message /\ ~closed

\* mutant: the dropped message stays pending
PendingAfterDrop_Kept == pending_message

\* mpsc.c:603
PendingAfterDrop == FALSE

\* mutant: the delivered message stays pending
PendingAfterCopy_Kept == pending_message

\* mpsc.c:612
PendingAfterCopy == FALSE

\* mutant: a buffer is allocated for an empty message too
CopyIsNil_Never(len) == FALSE

\* mpsc.c:596-600: the data pointer handed to the consumer callback is NULL
\* unless n > 0, in which case it is the buffer malloc returned
CopyIsNil(len) == len = 0

\* mutant: the length of the slot's message is kept
SlotLenAfterCopy_Kept == n

\* mpsc.c:611
SlotLenAfterCopy == 0

\* mutant: a pending message is not looked at once closed
ConsumerLoopBreak_Closed == closed

\* mpsc.c:588-590
ConsumerLoopBreak == closed /\ ~pending_message

\* mutant: the head of the queue is elected on a closed channel too
ConsumerElects_WhenClosed == Len(producer_waiting_ids_queue) > 0

\* mpsc.c:613
ConsumerElects == Len(producer_waiting_ids_queue) > 0 /\ ~closed

\* mutant: the last arrival is elected
ElectedProducer_Last(q) == q[Len(q)]

\* mpsc.c:615: the producer the consumer elects
ElectedProducer(q) == Head(q)

\* mutant: ping reads joined
PingResult_Joined == ~joined

\* mpsc.c:284-288
PingResult == ~closed

\* mutant: the unlock before the callback is missing
MutexAtConsumerCallback_Held == ConsT

\* The holder of the mutex once the consumer thread has executed the unlock
\* that precedes each callback (mpsc.c:592, 604, 619).
MutexAtConsumerCallback == NoThread

\* mutant: the mutex is not released when send returns false
MutexAtSendReturn_HeldOnRefusal(i) == IF closed THEN i ELSE NoThread

\* The holder of the mutex when mpsc_producer_send returns (mpsc.c:306, 325, 342)
MutexAtSendReturn(i) == NoThread

\* The holder of the mutex when register_producer, consumer_close, ping,
\* producer_done return and when join calls pthread_join
\* (mpsc.c:221, 225, 238, 243, 255, 259, 278, 289, 366)
MutexAtReturn == NoThread

\* mpsc.c:273-277: every producer in the wait queue is signalled
RECURSIVE SignalAll(_, _)
SignalAll(p, q) == IF q = <<>> THEN p ELSE SignalAll(SignalProducer(p, Head(q)), Tail(q))

\* mutant: only the consumer's condition variable is signalled
CloseSignals_None(p, q) == p

\* mpsc.c:273-277
CloseSignals(p, q) == SignalAll(p, q)

\* mpsc.c:271
ClosedAfterClose == TRUE

\* mutant: joined is not looked at
ClosedAfterDone_NoJoinCheck(cnt) == IF cnt = producer_count THEN TRUE ELSE closed

\* mutant: closed is assigned the condition
ClosedAfterDone_Assigned(cnt) == cnt = producer_count /\ joined

\* mpsc.c:358-363: closed after a producer has been counted done
ClosedAfterDone(cnt) == IF cnt = producer_count /\ joined THEN TRUE ELSE closed

\* mutant: mpsc_join leaves closed as it is
ClosedAfterJoin_Unchanged == closed

\* mpsc.c:216-220
ClosedAfterJoin == IF producer_count = n_producers_closed THEN TRUE ELSE closed

\* mutant: the mutex is still held after a failed pthread_create
MutexAtRegisterReturn_EagainHeld(t, res) == IF res = "eagain" THEN t ELSE NoThread

\* The holder of the mutex when register_producer, called by thread t,
\* returns res (mpsc.c:238, 243, 255, 259)
MutexAtRegisterReturn(t, res) == NoThread

\* mutant: closed is not looked at
RegOutcome_NoClosedCheck(spawn) ==
    IF MaxProducers = producer_count THEN "max"
    ELSE IF ~spawn THEN (IF error_handling_enabled THEN "eagain" ELSE "abort")
    ELSE "none"

\* mutant: closed is looked at before the number of producers
RegOutcome_ClosedFirst(spawn) ==
    IF closed THEN "closed"
    ELSE IF MaxProducers = producer_count THEN "max"
    ELSE IF ~spawn THEN (IF error_handling_enabled THEN "eagain" ELSE "abort")
    ELSE "none"

\* mutant: no producer thread is joined
JoinsProducer_None == FALSE

\* mpsc.c:226: the condition of the loop that joins the producer threads
JoinsProducer == ji < producer_count

\* mutant: a closed channel still accepts
SendRefused_Never == FALSE

\* mpsc.c:304
SendRefused == closed

\* mpsc.c:236-257: the result of register_producer; spawn is pthread_create's outcome
RegOutcome(spawn) ==
    IF MaxProducers = producer_count THEN "max"
    ELSE IF closed THEN "closed"
    ELSE IF ~spawn THEN (IF error_handling_enabled THEN "eagain" ELSE "abort")
    ELSE "none"

\* mutant: producer_count is incremented before the checks
RegisterChan_CountsRejected(res) ==
    /\ done' = IF res \in {"none", "eagain", "abort"}
               THEN [done EXCEPT ![producer_count] = FALSE] ELSE done
    /\ producer_count' = IF res \in {"none", "closed"}
                         THEN producer_count + 1 ELSE producer_count

\* mpsc.c:246-258: producers[producer_count] is initialised before the thread
\* is created, producer_count is incremented after
RegisterChan(res) ==
    /\ done' = IF res \in {"none", "eagain", "abort"}
               THEN [done EXCEPT ![producer_count] = FALSE] ELSE done
    /\ producer_count' = IF res = "none" THEN producer_count + 1 ELSE producer_count

\* the new producer thread starts in its task (mpsc.c:563-566)
NewThread(p, res) == IF res = "none" THEN [p EXCEPT ![producer_count] = "task"] ELSE p

\* mpsc_register_producer called by thread t: mpsc.c:233-261
mpsc_register_producer(t) ==
    /\ regCalls < MaxRegCalls /\ mutex = NoThread
    /\ regCalls' = regCalls + 1
    /\ \E spawn \in ThreadCreateOutcomes :
         LET res == RegOutcome(spawn) IN
         /\ RegisterChan(res)
         /\ mainOk' = (mainOk \/ (t = MainT /\ res = "none"))
         /\ IF res = "abort"
            THEN \* my_thread_create, mpsc.c:775-779
                 /\ abort(t, "abort_spawn")
                 /\ lastReg' = "-"
            ELSE /\ ppc' = NewThread(ppc, res)
                 /\ mutex' = MutexAtRegisterReturn(t, res)
                 /\ lastReg' = res
                 /\ UNCHANGED <<mpc, cpc>>
    /\ UNCHANGED <<error_handling_enabled, buffer, n, pending_message, joined, closed,
                   n_producers_closed, producer_waiting_ids_queue,
                   next_waiting_producer_id, sends, slotId, enq, cbLog, pings,
                   closeSlot, closeAt, ji, cbKind, curN, closeCalls, createVars>>

\* --------------------------------------------------------- creator thread
\* mpsc_register_producer called by the creator
M_Register ==
    /\ mpc = "run"
    /\ mpsc_register_producer(MainT)
    /\ UNCHANGED ops

\* mpsc.c:187-198: the check of the calling thread
WrongThread(t) == ~create_and_join_thread_safety_disabled /\ t # MainT

\* mutant: the channel is joined whatever the number of producers
JoinAborts_Never == FALSE

\* mpsc.c:208
JoinAborts == producer_count = 0

\* mpsc_join called by thread t: mpsc.c:186-221, from the lock to the unlock
\* that precedes the join of the consumer thread, or to abort().  Only the
\* creator goes on to join the threads.
mpsc_join(t) ==
    /\ mutex = NoThread
    /\ IF WrongThread(t)
       THEN \* 190-197
            /\ abort(t, "abort_thread")
            /\ UNCHANGED <<joined, closed>>
       ELSE IF joined
       THEN \* 199-206
            /\ abort(t, "abort_join")
            /\ UNCHANGED <<joined, closed>>
       ELSE /\ joined' = TRUE
            /\ IF JoinAborts
               THEN \* 208-215
                    /\ abort(t, "abort_empty")
                    /\ UNCHANGED closed
               ELSE \* 216-221
                    /\ t = MainT
                    /\ closed' = ClosedAfterJoin
                    /\ cpc' = IF producer_count = n_producers_closed
                              THEN SignalMain(cpc) ELSE cpc
                    /\ mutex' = MutexAtReturn /\ mpc' = "joinC"
                    /\ UNCHANGED ppc
    /\ UNCHANGED <<error_handling_enabled, buffer, n, pending_message,
                   n_producers_closed, producer_waiting_ids_queue,
                   next_waiting_producer_id, producer_count, done, histVars, ji,
                   cbKind, curN, regCalls, mainOk, closeCalls>>
    /\ lastReg' = "-"
    /\ joinCalls' = joinCalls + 1
    /\ UNCHANGED <<create_and_join_thread_safety_disabled, callBudget, junk, acquired, released,
                   wildFree, errno, fault>>

\* The creator calls mpsc_join, once, at any time after mpsc_create.
mpsc_join_enter ==
    /\ mpc = "run"
    /\ mpsc_join(MainT)
    /\ UNCHANGED ops

\* mpsc.c:222-225: pthread_join on the consumer thread, then closed = true
\* under the lock
mpsc_join_consumer ==
    /\ mpc = "joinC" /\ cpc = "exited" /\ mutex = NoThread
    /\ closed' = TRUE
    /\ mutex' = MutexAtReturn /\ mpc' = "joinP" /\ ji' = 0
    /\ UNCHANGED <<error_handling_enabled, buffer, n, pending_message, joined,
                   n_producers_closed, producer_waiting_ids_queue,
                   next_waiting_producer_id, producer_count, done, histVars,
                   cpc, cbKind, ppc, curN, ops, regCalls, mainOk, closeCalls>>
    /\ lastReg' = "-"
    /\ UNCHANGED createVars

\* mpsc.c:226-229: one iteration of the loop
mpsc_join_producer ==
    /\ mpc = "joinP" /\ JoinsProducer /\ ppc[ji] = "exited"
    /\ ji' = ji + 1
    /\ UNCHANGED <<chanVars, histVars, mutex, mpc, cpc, cbKind, ppc, curN, ops,
                   regCalls, mainOk, closeCalls>>
    /\ lastReg' = "-"
    /\ UNCHANGED createVars

\* mpsc.c:226 (loop exit) and 230
mpsc_join_destroy ==
    /\ mpc = "joinP" /\ ~JoinsProducer
    /\ mpc' = "done" /\ ji' = 0
    /\ released' = mpsc_destroy(released)
    /\ UNCHANGED <<chanVars, histVars, mutex, cpc, cbKind, ppc, curN, ops,
                   regCalls, mainOk, closeCalls>>
    /\ lastReg' = "-"
    /\ UNCHANGED <<create_and_join_thread_safety_disabled, callBudget, junk, acquired,
                   wildFree, errno, fault, joinCalls>>

\* -------------------------------------------------------- consumer thread
\* pthread_cond_wait may return without a signal
C_Spurious ==
    /\ cpc = "wait"
    /\ cpc' = "woken"
    /\ UNCHANGED <<chanVars, histVars, mutex, mpc, ji, cbKind, ppc, curN, ops,
                   regCalls, mainOk, closeCalls>>
    /\ lastReg' = "-"
    /\ UNCHANGED createVars

\* the record of one callback invocation
Invocation(kind, data, len, nil, cl, id) ==
    [kind |-> kind, data |-> data, n |-> len, nil |-> nil, closed |-> cl, id |-> id]

\* mpsc.c:581-624: one pass from the lock (581, or the re-acquisition of the
\* mutex by pthread_cond_wait, 586) to the next wait or to the entry of a
\* callback
my_consumer_thread_callback ==
    /\ cpc \in {"top", "woken"} /\ mutex = NoThread
    /\ IF ConsumerMustWait
       THEN \* 586: pthread_cond_wait releases the mutex
            /\ cpc' = "wait" /\ mutex' = NoThread
            /\ UNCHANGED <<chanVars, histVars, cbKind, ppc, mpc>>
       ELSE IF ConsumerLoopBreak
       THEN \* 592-593, 624: the terminal callback
            /\ mutex' = MutexAtConsumerCallback
            /\ cpc' = "cb" /\ cbKind' = "term"
            /\ cbLog' = Append(cbLog, Invocation("term", <<>>, 0, TRUE, TRUE, NoId))
            /\ UNCHANGED <<chanVars, sends, slotId, enq, pings, closeSlot, regHist, ppc, mpc>>
       ELSE \E ok \in MallocOutcomes(n) :
            IF ~ok /\ ~MallocFailureReturns
            THEN \* 599, my_malloc 795-799
                 /\ abort(ConsT, "abort_malloc")
                 /\ UNCHANGED <<chanVars, histVars, cbKind>>
            ELSE IF ~ok
            THEN \* 602-607: the message is dropped, the error callback called
                 /\ n' = 0 /\ pending_message' = PendingAfterDrop
                 /\ mutex' = MutexAtConsumerCallback
                 /\ cpc' = "cb" /\ cbKind' = "err"
                 /\ cbLog' = Append(cbLog, Invocation("err", <<>>, 0, TRUE, FALSE, slotId))
                 /\ slotId' = NoId
                 /\ UNCHANGED <<error_handling_enabled, buffer, joined, closed,
                                n_producers_closed, producer_waiting_ids_queue,
                                next_waiting_producer_id, producer_count, done,
                                sends, enq, pings, closeSlot, regHist, ppc, mpc>>
            ELSE \* 609-621: copy out, elect the head of the queue, callback
                 /\ n' = SlotLenAfterCopy /\ pending_message' = PendingAfterCopy
                 /\ IF ConsumerElects
                    THEN /\ next_waiting_producer_id' =
                                ElectedProducer(producer_waiting_ids_queue)
                         /\ ppc' = SignalProducer(ppc,
                                ElectedProducer(producer_waiting_ids_queue))
                    ELSE UNCHANGED <<next_waiting_producer_id, ppc>>
                 /\ mutex' = MutexAtConsumerCallback
                 /\ cpc' = "cb" /\ cbKind' = "msg"
                 /\ cbLog' = Append(cbLog, Invocation("msg", SubSeq(buffer, 1, n), n,
                                                      CopyIsNil(n), FALSE, slotId))
                 /\ slotId' = NoId
                 /\ enq' = Remove(enq, slotId)
                 /\ UNCHANGED <<error_handling_enabled, buffer, joined, closed,
                                n_producers_closed, producer_waiting_ids_queue,
                                producer_count, done,
                                sends, pings, closeSlot, regHist, mpc>>
    /\ UNCHANGED <<ji, curN, ops, regCalls, mainOk, closeCalls>>
    /\ lastReg' = "-"
    /\ UNCHANGED createVars

\* mutant: the loop is not left after the terminal callback
AfterCallback_NoBreak(kind) == "top"

\* where the consumer thread goes when a callback returns: mpsc.c:607
\* (continue) and 621 go back to 581; 624 is after the loop, the thread ends
AfterCallback(kind) == IF kind = "term" THEN "exited" ELSE "top"

\* the callback returns
CB_Return ==
    /\ cpc = "cb"
    /\ cpc' = AfterCallback(cbKind)
    /\ cbKind' = "none"
    /\ UNCHANGED <<chanVars, histVars, mutex, mpc, ji, ppc, curN, ops, regCalls,
                   mainOk, closeCalls>>
    /\ lastReg' = "-"
    /\ UNCHANGED createVars

\* the callback calls mpsc_consumer_close: mpsc.c:268-279
mpsc_consumer_close ==
    /\ cpc = "cb" /\ closeCalls < MaxCloses /\ mutex = NoThread
    /\ closeCalls' = closeCalls + 1
    /\ closed' = ClosedAfterClose
    /\ ppc' = CloseSignals(ppc, producer_waiting_ids_queue)
    /\ mutex' = MutexAtReturn
    /\ closeSlot' = IF ~closed /\ pending_message THEN slotId ELSE closeSlot
    /\ closeAt' = IF closeAt = 0 THEN Len(cbLog) ELSE closeAt
    /\ UNCHANGED <<error_handling_enabled, buffer, n, pending_message, joined,
                   n_producers_closed, producer_waiting_ids_queue,
                   next_waiting_producer_id, producer_count, done,
                   sends, slotId, enq, cbLog, pings,
                   mpc, ji, cpc, cbKind, curN, ops, regCalls, mainOk>>
    /\ lastReg' = "-"
    /\ UNCHANGED createVars

\* the callback calls mpsc_consumer_register_producer: mpsc.c:263-266
CB_Register ==
    /\ cpc = "cb"
    /\ mpsc_register_producer(ConsT)
    /\ UNCHANGED ops

\* ------------------------------------------------------- producer threads
\* the API calls made so far by the tasks of producers 0 .. k
RECURSIVE SumOps(_)
SumOps(k) == IF k < 0 THEN 0 ELSE ops[k] + SumOps(k - 1)

\* producer i's task may make one more API call
MayCall(i) == ops[i] < MaxOps /\ SumOps(MaxProducers - 1) < callBudget

\* mutant: the closed check comes after the copy into the slot
SendReturnsFalse_AfterCopy(i, len) ==
    /\ buffer' = IF len > 0
                 THEN memcpy(buffer, Payload(i, Len(sends[i]) + 1, len), len)
                 ELSE buffer
    /\ n' = len
    /\ pending_message' = TRUE
    /\ cpc' = SignalMain(cpc)
    /\ slotId' = CurId(i)
    /\ mutex' = NoThread
    /\ ppc' = [ppc EXCEPT ![i] = "task"]
    /\ curN' = [curN EXCEPT ![i] = 0]
    /\ sends' = [sends EXCEPT ![i] = Append(@, [n |-> len, ok |-> FALSE])]
    /\ enq' = Remove(enq, CurId(i))
    /\ UNCHANGED <<error_handling_enabled, joined, closed, n_producers_closed,
                   producer_waiting_ids_queue, next_waiting_producer_id,
                   producer_count, done, cbLog, pings, closeSlot, regHist>>

\* mpsc.c:306-307 and 325-326: the send call returns false
SendReturnsFalse(i, len) ==
    /\ mutex' = MutexAtSendReturn(i)
    /\ ppc' = [ppc EXCEPT ![i] = "task"]
    /\ curN' = [curN EXCEPT ![i] = 0]
    /\ sends' = [sends EXCEPT ![i] = Append(@, [n |-> len, ok |-> FALSE])]
    /\ enq' = Remove(enq, CurId(i))
    /\ UNCHANGED <<buffer, n, pending_message, slotId, cpc>>
    /\ UNCHANGED <<error_handling_enabled, joined, closed, n_producers_closed,
                   producer_waiting_ids_queue, next_waiting_producer_id,
                   producer_count, done, cbLog, pings, closeSlot, regHist>>

\* mpsc.c:335-343: the message is copied into the slot, the call returns true
Deposit(i, len) ==
    /\ buffer' = IF len > 0
                 THEN memcpy(buffer, Payload(i, Len(sends[i]) + 1, len), len)
                 ELSE buffer
    /\ n' = len
    /\ pending_message' = TRUE
    /\ cpc' = SignalMain(cpc)
    /\ mutex' = MutexAtSendReturn(i)
    /\ ppc' = [ppc EXCEPT ![i] = "task"]
    /\ curN' = [curN EXCEPT ![i] = 0]
    /\ sends' = [sends EXCEPT ![i] = Append(@, [n |-> len, ok |-> TRUE])]
    /\ slotId' = CurId(i)
    /\ UNCHANGED <<error_handling_enabled, joined, closed, n_producers_closed,
                   producer_count, done, cbLog, pings, closeSlot, regHist>>

\* mpsc.c:321: pthread_cond_wait on the producer's own condition variable
SendWaits(i, len) ==
    /\ mutex' = NoThread
    /\ ppc' = [ppc EXCEPT ![i] = "wait"]
    /\ curN' = [curN EXCEPT ![i] = len]
    /\ UNCHANGED <<error_handling_enabled, buffer, n, pending_message, joined, closed,
                   n_producers_closed, next_waiting_producer_id, producer_count, done,
                   sends, slotId, cbLog, pings, closeSlot, regHist, cpc>>

\* mutant: the queue is left as it is
mpsc_shift_producer_wait_queue_Keep(q) == q

\* mpsc.c:412-428, on a non-empty queue
mpsc_shift_producer_wait_queue(q) == Tail(q)

\* mpsc.c:379-410: the producer's index is appended to the queue
mpsc_producer_subscribe_to_wait_queue(q, i) == Append(q, i)

\* mpsc.c:381-397: the handle is looked up among the n_max_producers
\* elements of self->mpsc->producers
ProducerFound(i) == i \in 0 .. (MaxProducers - 1)

\* mpsc.c:390-405: the fatal conditions of the subscription
SubscribeAborts(q, i) == ~ProducerFound(i) \/ Len(q) = MaxProducers

\* mutant: the queue is shifted only when it holds two indices
ShiftAborts_BelowTwo(q) == Len(q) < 2

\* mpsc.c:414-421: the fatal condition of the shift
ShiftAborts(q) == Len(q) = 0

\* mpsc.c:317-343: the wait loop and what follows it, with queue q (e is the
\* history of the arrivals at the queue)
SendLoop(i, len, q, e) ==
    IF WaitLoopCond(i)
    THEN /\ producer_waiting_ids_queue' = q
         /\ enq' = e
         /\ SendWaits(i, len)
         /\ UNCHANGED mpc
    ELSE IF closed
    THEN \* 323-327; the queue still holds the producer's index
         /\ SendReturnsFalse(i, len)
         /\ UNCHANGED mpc
    ELSE IF ShiftAborts(q)
    THEN \* 414-421
         /\ abort(i, "abort_shift")
         /\ UNCHANGED <<chanVars, histVars, curN>>
    ELSE /\ producer_waiting_ids_queue' = mpsc_shift_producer_wait_queue(q)
         /\ next_waiting_producer_id' = NoProducer
         /\ enq' = e
         /\ Deposit(i, len)
         /\ UNCHANGED mpc

\* the task calls mpsc_producer_send(self, data, len) (send_empty is len = 0): mpsc.c:293-344, from the lock to the first wait or
\* to the return
mpsc_producer_send(i, len) ==
    /\ ppc[i] = "task" /\ MayCall(i) /\ mutex = NoThread
    /\ ops' = [ops EXCEPT ![i] = @ + 1]
    /\ IF SendAborts(len)
       THEN \* 296-303
            /\ abort(i, "abort_send")
            /\ UNCHANGED <<chanVars, histVars, curN>>
       ELSE IF SendRefused
       THEN /\ SendReturnsFalse(i, len)
            /\ UNCHANGED mpc
       ELSE IF SendMustWait
       THEN IF SubscribeAborts(producer_waiting_ids_queue, i)
            THEN \* 390-405
                 /\ abort(i, "abort_subscribe")
                 /\ UNCHANGED <<chanVars, histVars, curN>>
            ELSE SendLoop(i, len,
                   mpsc_producer_subscribe_to_wait_queue(producer_waiting_ids_queue, i),
                   Append(enq, CurId(i)))
       ELSE /\ Deposit(i, len)
            /\ UNCHANGED <<producer_waiting_ids_queue, next_waiting_producer_id, enq, mpc>>
    /\ UNCHANGED <<ji, cbKind, regCalls, mainOk, closeCalls>>
    /\ lastReg' = "-"
    /\ UNCHANGED createVars

\* pthread_cond_wait may return without a signal
P_Spurious(i) ==
    /\ ppc[i] = "wait"
    /\ ppc' = [ppc EXCEPT ![i] = "woken"]
    /\ UNCHANGED <<chanVars, histVars, mutex, mpc, ji, cpc, cbKind, curN, ops,
                   regCalls, mainOk, closeCalls>>
    /\ lastReg' = "-"
    /\ UNCHANGED createVars

\* mpsc.c:317-343, from the return of pthread_cond_wait (which re-acquires
\* the mutex) to the next wait or to the return
mpsc_producer_send_resume(i) ==
    /\ ppc[i] = "woken" /\ mutex = NoThread
    /\ SendLoop(i, curN[i], producer_waiting_ids_queue, enq)
    /\ UNCHANGED <<ji, cbKind, ops, regCalls, mainOk, closeCalls>>
    /\ lastReg' = "-"
    /\ UNCHANGED createVars

\* the task calls mpsc_producer_ping: mpsc.c:281-291
mpsc_producer_ping(i) ==
    /\ ppc[i] = "task" /\ MayCall(i) /\ mutex = NoThread
    /\ ops' = [ops EXCEPT ![i] = @ + 1]
    /\ pings' = Append(pings, [p |-> i, ok |-> PingResult, closed |-> closed,
                               afterClose |-> closeCalls > 0])
    /\ mutex' = MutexAtReturn
    /\ UNCHANGED <<chanVars, sends, slotId, enq, cbLog, closeSlot, regHist,
                   mpc, ji, cpc, cbKind, ppc, curN, regCalls, mainOk, closeCalls>>
    /\ lastReg' = "-"
    /\ UNCHANGED createVars

\* the task calls mpsc_producer_register_producer: mpsc.c:374-377
P_Register(i) ==
    /\ ppc[i] = "task" /\ MayCall(i)
    /\ ops' = [ops EXCEPT ![i] = @ + 1]
    /\ mpsc_register_producer(i)

\* mutant: the producer is not counted
ProducersClosedAfterDone_Kept == n_producers_closed

\* mpsc.c:357
ProducersClosedAfterDone == n_producers_closed + 1

\* the task returns and my_producer_thread_callback calls mpsc_producer_done,
\* then the thread ends: mpsc.c:566-568, 351-367
mpsc_producer_done(i) ==
    /\ ppc[i] = "task" /\ mutex = NoThread
    /\ IF ~done[i]
       THEN /\ done' = [done EXCEPT ![i] = TRUE]
            /\ n_producers_closed' = ProducersClosedAfterDone
            /\ closed' = ClosedAfterDone(ProducersClosedAfterDone)
            /\ cpc' = IF ProducersClosedAfterDone = producer_count /\ joined
                      THEN SignalMain(cpc) ELSE cpc
       ELSE UNCHANGED <<done, n_producers_closed, closed, cpc>>
    /\ mutex' = MutexAtReturn /\ ppc' = [ppc EXCEPT ![i] = "exited"]
    /\ UNCHANGED <<error_handling_enabled, buffer, n, pending_message, joined,
                   producer_waiting_ids_queue, next_waiting_producer_id,
                   producer_count, histVars, mpc, ji, cbKind, curN, ops, regCalls,
                   mainOk, closeCalls>>
    /\ lastReg' = "-"
    /\ UNCHANGED createVars

\* ------------------------------------------------- a second call of join
\* While the creator's call of mpsc_join is in progress, a producer task or
\* the consumer callback calls mpsc_join on the channel: mpsc.c:186-206
P_Join(i) ==
    /\ ppc[i] = "task" /\ MayCall(i)
    /\ joined
    /\ ops' = [ops EXCEPT ![i] = @ + 1]
    /\ mpsc_join(i)

CB_Join ==
    /\ cpc = "cb"
    /\ joined
    /\ mpsc_join(ConsT)
    /\ UNCHANGED ops

\* What a call of mpsc_join on a destroyed channel can do.  mpsc_destroy has
\* destroyed the mutex and freed *self (mpsc.c:432-443), so locking the mutex
\* (186) and reading self->joined (199) are undefined: pthread_mutex_lock
\* fails and my_mutex_set_lock_state aborts (645-653), the old value of
\* joined is read and 199-206 aborts, the process is killed, or the thread
\* blocks on the mutex for ever.
UseAfterDestroyOutcomes == {"abort_lock", "abort_join", "crashed", "blocked"}

\* After its call of mpsc_join has returned, the creator calls mpsc_join on
\* the same channel again.
M_JoinAgain ==
    /\ mpc = "done"
    /\ \E out \in UseAfterDestroyOutcomes : mpc' = out
    /\ joinCalls' = joinCalls + 1
    /\ lastReg' = "-"
    /\ UNCHANGED <<chanVars, histVars, mutex, ji, cpc, cbKind, ppc, curN, ops,
                   regCalls, mainOk, closeCalls,
                   create_and_join_thread_safety_disabled, callBudget, junk, acquired, released,
                   wildFree, errno, fault>>

SecondJoin == M_JoinAgain \/ CB_Join \/ \E i \in Producers : P_Join(i)

\* ----------------------------------------------------------- specification
MainNext ==
    \/ M_Register
    \/ mpsc_join_enter
    \/ mpsc_join_consumer
    \/ mpsc_join_producer
    \/ mpsc_join_destroy

ConsumerNext ==
    \/ my_consumer_thread_callback
    \/ CB_Return
    \/ mpsc_consumer_close
    \/ CB_Register

ProducerNext(i) ==
    \/ \E len \in 0 .. (BufSize + 1) : mpsc_producer_send(i, len)
    \/ mpsc_producer_send_resume(i)
    \/ mpsc_producer_ping(i)
    \/ P_Register(i)
    \/ mpsc_producer_done(i)

Spurious == C_Spurious \/ \E i \in Producers : P_Spurious(i)

Next ==
    \/ MainNext
    \/ ConsumerNext
    \/ \E i \in Producers : ProducerNext(i)
    \/ Spurious

Spec == Init /\ [][Next]_vars

\* ------------------------- specification with every task's calls made
\* The channel as in Spec, with each producer task making up to MaxOps API
\* calls, whatever the other tasks do.
WideInit ==
    /\ error_handling_enabled \in BOOLEAN
    /\ callBudget = MaxOps * MaxProducers
    /\ create_and_join_thread_safety_disabled = FALSE
    /\ InitChannel
    /\ Created

WideSpec == WideInit /\ [][Next]_vars

\* ---------------------------------------------- specification with fairness
\* The scheduler is fair to every thread: a thread that can take a step
\* eventually takes one.  Every user callback and every producer task makes
\* finitely many API calls and returns.  A condition variable wait is only
\* left through a signal: spurious wakeups may happen but are not promised.
\* The behaviours are those in which the producer tasks make at most LiveOps
\* API calls in total, at most LiveRegCalls registrations are attempted and no
\* fatal error ends the process.
LiveBound == SumOps(MaxProducers - 1) <= LiveOps /\ regCalls <= LiveRegCalls

FairNext == Next /\ LiveBound' /\ ~Aborted'

Fairness ==
    /\ WF_vars(MainNext /\ LiveBound' /\ ~Aborted')
    /\ WF_vars(ConsumerNext /\ LiveBound' /\ ~Aborted')
    /\ \A i \in Producers : WF_vars(ProducerNext(i) /\ LiveBound' /\ ~Aborted')

FairSpec == Init /\ [][FairNext]_vars /\ Fairness


\* ------------------------------------- specification with a second join
\* The channel with the check of the joining thread in force or disabled,
\* in which join is called a second time.  The first call is the creator's.
\* The behaviours are those in which the producer tasks make at most LiveOps
\* API calls in total and at most LiveRegCalls registrations are attempted.
JoinInit ==
    /\ error_handling_enabled \in BOOLEAN
    /\ callBudget = MaxTotalOps
    /\ callBudget = MaxTotalOps
    /\ create_and_join_thread_safety_disabled \in BOOLEAN
    /\ InitChannel
    /\ Created

JoinNext == (Next \/ SecondJoin) /\ LiveBound'

JoinSpec == JoinInit /\ [][JoinNext]_vars

\* ------------------------------------------- specification of mpsc_create
\* Before mpsc_create: nothing is acquired, the consumer thread does not
\* exist, the struct mpsc_create will allocate holds arbitrary bytes, and the
\* environment has chosen which step, if any, fails and how.  The members
\* of the channel have the values mpsc_create gives them.
CreateInit ==
    /\ error_handling_enabled \in BOOLEAN
    /\ callBudget = MaxTotalOps
    /\ callBudget = MaxTotalOps
    /\ create_and_join_thread_safety_disabled = FALSE
    /\ InitChannel
    /\ mpc = "create"
    /\ cpc = "unborn"
    /\ junk \in [Members -> BOOLEAN]
    /\ acquired = {}
    /\ released = [k \in AllSteps |-> 0]
    /\ wildFree = {}
    /\ errno = "none"
    /\ fault \in PossibleFaults
    /\ joinCalls = 0

CreateNext == mpsc_create

CreateSpec == CreateInit /\ [][CreateNext]_vars

\* ============================================================ the claims
\* the send calls that have returned
SendCalls == {c \in Producers \X (1 .. MaxOps + 1) : c[2] <= Len(sends[c[1]])}
Accepted == {c \in SendCalls : sends[c[1]][c[2]].ok}
Refused == {c \in SendCalls : ~sends[c[1]][c[2]].ok}
SentLen(c) == sends[c[1]][c[2]].n

\* the positions in cbLog of the invocations of one kind for one send call
InvocationsOf(kind, c) == {j \in 1 .. Len(cbLog) : cbLog[j].kind = kind /\ cbLog[j].id = c}
Invocations(kind) == {j \in 1 .. Len(cbLog) : cbLog[j].kind = kind}
TerminalFired == Invocations("term") # {}

\* a non-terminal invocation carries an equal-length, byte-equal copy of the
\* payload of the send call it is for
FaithfulCopy(j) ==
    LET c == cbLog[j].id IN
    /\ c \in Accepted
    /\ ~cbLog[j].closed
    /\ cbLog[j].n = SentLen(c)
    /\ cbLog[j].data = Payload(c[1], c[2], SentLen(c))

\* C1 as stated: every send call that returned true gets exactly one
\* non-terminal consumer callback with a byte-equal copy of its payload,
\* before the terminal callback; when join returns, the non-terminal
\* invocations are as many as the send calls that returned true.
C1_DeliveredExactlyOnce ==
    /\ \A j \in Invocations("msg") : FaithfulCopy(j)
    /\ \A c \in Accepted :
         /\ Cardinality(InvocationsOf("msg", c)) <= 1
         /\ TerminalFired => Cardinality(InvocationsOf("msg", c)) = 1
    /\ mpc = "done" => Cardinality(Invocations("msg")) = Cardinality(Accepted)

\* C1 as amended: every send call that returned true gets exactly one
\* invocation before the terminal callback: the consumer callback with a
\* byte-equal copy of its payload, or, under the report policy and for a
\* payload of n > 0 bytes only, the consumer error callback (the message is
\* dropped); when join returns, the non-terminal and error invocations
\* together are as many as the send calls that returned true.
C1_DeliveredOrReported ==
    /\ \A j \in Invocations("msg") : FaithfulCopy(j)
    /\ \A j \in Invocations("err") :
         /\ cbLog[j].id \in Accepted
         /\ SentLen(cbLog[j].id) > 0
         /\ error_handling_enabled
    /\ \A c \in Accepted :
         LET k == Cardinality(InvocationsOf("msg", c)) + Cardinality(InvocationsOf("err", c))
         IN /\ k <= 1
            /\ TerminalFired => k = 1
    /\ mpc = "done" =>
         Cardinality(Invocations("msg")) + Cardinality(Invocations("err"))
             = Cardinality(Accepted)

\* join has returned after a message of n > 0 bytes was delivered, an empty
\* message was delivered, and a message was dropped
C1_Witness ==
    /\ mpc = "done"
    /\ \E j \in Invocations("msg") : cbLog[j].n > 0
    /\ \E j \in Invocations("msg") : cbLog[j].n = 0
    /\ Invocations("err") # {}

\* C2: the payload of a send call that returned false is never copied into
\* the slot and never handed to the consumer callback or counted as a
\* message, whether the call returned at once or after waiting in the queue.
C2_RefusedNeverDelivered ==
    \A c \in Refused :
        /\ slotId # c
        /\ \A j \in 1 .. Len(cbLog) : cbLog[j].id # c
        /\ \A x \in 1 .. BufSize : buffer[x] # Tag(c[1], c[2])
        /\ \A j \in 1 .. Len(cbLog) :
             \A x \in 1 .. Len(cbLog[j].data) : cbLog[j].data[x] # Tag(c[1], c[2])

\* a send call of n > 0 bytes has returned false after its producer had been
\* elected by the consumer (the election is never cleared once closed), and
\* another has returned false at once
C2_Witness ==
    /\ \E i \in Producers :
         /\ next_waiting_producer_id = i
         /\ ppc[i] = "task"
         /\ <<i, Len(sends[i])>> \in Refused
         /\ SentLen(<<i, Len(sends[i])>>) > 0
    /\ \E c \in Refused : c[1] # next_waiting_producer_id /\ SentLen(c) > 0

\* C3: the terminal callback (closed = true, data nil, n = 0) is invoked at
\* most once, it is the last invocation of any callback, and it has been
\* invoked once the consumer thread has ended, which join waits for.
C3_TerminalOnceAndLast ==
    /\ Cardinality(Invocations("term")) <= 1
    /\ \A j \in Invocations("term") :
         /\ j = Len(cbLog)
         /\ cbLog[j].closed /\ cbLog[j].nil /\ cbLog[j].n = 0
    /\ \A j \in 1 .. Len(cbLog) : cbLog[j].closed => cbLog[j].kind = "term"
    /\ (cpc = "exited" \/ mpc \in {"joinP", "done"}) =>
         Cardinality(Invocations("term")) = 1

\* join has returned after a message, an error and the terminal callback
C3_Witness ==
    /\ mpc = "done"
    /\ Len(cbLog) >= 3
    /\ Invocations("msg") # {}
    /\ Invocations("err") # {}
    /\ cbLog[Len(cbLog)].kind = "term"

\* the send calls whose message was dropped by the consumer
Dropped(c) == InvocationsOf("err", c) # {}
\* the consumer callback is invoked, in this step, for send call c
Delivering(c) ==
    /\ Len(cbLog') = Len(cbLog) + 1
    /\ cbLog'[Len(cbLog')].kind = "msg"
    /\ cbLog'[Len(cbLog')].id = c

\* C4 as stated: if P_a's send call entered the wait queue before P_b's and
\* both returned true, P_a's message is delivered to the consumer callback
\* before P_b's: when the message of a call that went through the queue is
\* delivered, no call that entered the queue earlier is still undelivered.
C4_FifoDelivered ==
    [][\A y \in 1 .. Len(enq) : Delivering(enq[y]) => y = 1]_vars

\* C4 as amended: if P_a's send call entered the wait queue before P_b's and
\* both returned true, then P_a's message has been taken out of the slot by
\* the consumer (delivered or, under the report policy, dropped with the
\* error callback when its allocation failed) before P_b's message is copied
\* into the slot, hence before P_b's message is delivered.
C4_FifoHandoff ==
    \A x, y \in 1 .. Len(enq) :
        (x < y /\ (enq[y] = slotId \/ Dropped(enq[y]))) => Dropped(enq[x])

\* two calls that waited in the queue: the first has been handled by the
\* consumer and the message of the second is in the slot
C4_Witness ==
    /\ Len(enq) >= 2
    /\ Dropped(enq[1])
    /\ slotId = enq[2]
    /\ enq[2] \in Accepted

\* C5 as stated: a message pending in the slot when close() closes the
\* channel is delivered to the consumer callback before the terminal
\* callback.
C5_PendingDelivered ==
    (TerminalFired /\ closeSlot # NoId) => InvocationsOf("msg", closeSlot) # {}

\* C5 as amended: a message pending in the slot when close() closes the
\* channel is never discarded by the closure: it stays in the slot until the
\* consumer takes it out, before the terminal callback, and the consumer then
\* delivers it to the consumer callback or, under the report policy and when
\* the allocation for its n > 0 bytes fails, reports it to the error callback.
C5_PendingSurvivesClose ==
    closeSlot # NoId =>
        /\ closeSlot \in Accepted
        /\ \/ slotId = closeSlot /\ pending_message /\ ~TerminalFired
           \/ InvocationsOf("msg", closeSlot) # {}
           \/ /\ Dropped(closeSlot)
              /\ error_handling_enabled
              /\ SentLen(closeSlot) > 0

\* the terminal callback has fired after the delivery of a message that was
\* pending when close() was called
C5_Witness ==
    /\ TerminalFired
    /\ closeSlot # NoId
    /\ InvocationsOf("msg", closeSlot) # {}

\* C6: the thread that enters a user callback (consumer callback, terminal
\* callback, error callback, producer task) does not hold the channel's
\* mutex, then or while the callback runs.
C6_NoLockInCallbacks ==
    /\ cpc = "cb" => mutex # ConsT
    /\ \A i \in Producers : ppc[i] = "task" => mutex # i

\* the consumer is in its terminal callback, after a message and an error
\* callback, while a producer task runs after a send call
C6_Witness ==
    /\ cpc = "cb" /\ cbKind = "term"
    /\ Invocations("msg") # {}
    /\ Invocations("err") # {}
    /\ \E i \in Producers : ppc[i] = "task" /\ Len(sends[i]) > 0

\* C9: ping returns true iff closed is false when ping holds the lock; a
\* ping made after close() has returned returns false; no ping returns true
\* after a ping has returned false.
C9_Ping ==
    /\ \A j \in 1 .. Len(pings) :
         /\ pings[j].ok = ~pings[j].closed
         /\ pings[j].afterClose => ~pings[j].ok
    /\ \A j, k \in 1 .. Len(pings) : (j < k /\ ~pings[j].ok) => ~pings[k].ok

\* a ping has returned true and a later one, made after close(), false
C9_Witness ==
    \E j, k \in 1 .. Len(pings) :
        j < k /\ pings[j].ok /\ ~pings[k].ok /\ pings[k].afterClose

\* C10: once closed is true it stays true in every later state.
C10_ClosedMonotonic == [][closed => closed']_vars

\* the channel was closed by close(), then producers finished, join ran and
\* returned
C10_Witness == closed /\ closeCalls > 0 /\ mpc = "done" /\ n_producers_closed = MaxProducers

\* producer i is blocked in a send call
BlockedInSend(i) == ppc[i] \in {"wait", "woken"}
\* producer i is not in a send call and its last send call returned false
LastSendRefused(i) ==
    /\ ppc[i] \in {"task", "exited"}
    /\ Len(sends[i]) > 0
    /\ ~sends[i][Len(sends[i])].ok

\* C7: under fair scheduling, with callbacks and tasks that return, every
\* send call eventually returns and a call to join eventually returns.
C7_JoinReturns ==
    /\ \A i \in Producers : BlockedInSend(i) ~> ~BlockedInSend(i)
    /\ joined ~> (mpc = "done")

\* C8: every producer blocked in send when the channel is closed (waiting in
\* the queue, elected or not) eventually returns false from that call.
C8_CloseReleasesWaiters ==
    \A i \in Producers : (closed /\ BlockedInSend(i)) ~> LastSendRefused(i)

\* close() was called while two producers were in the wait queue, one of
\* them elected, and both have returned false
C8_Witness ==
    /\ closeCalls > 0
    /\ Len(producer_waiting_ids_queue) = 2
    /\ next_waiting_producer_id = Head(producer_waiting_ids_queue)
    /\ \A i \in Producers :
         /\ ppc[i] = "task"
         /\ Len(sends[i]) > 0
         /\ ~sends[i][Len(sends[i])].ok

\* a register_producer call returns in this step
RegReturns == regCalls' = regCalls + 1 /\ ~Aborted'
\* the step registers nothing
RegistersNothing == producer_count' = producer_count /\ ppc' = ppc

\* C11: closed becomes true only in a step of close() or in a step after
\* which joined holds and every registered producer is counted done; while
\* join has not been entered and close() was not called the channel is open,
\* whatever the number of producers that have returned, and a registration
\* made then with fewer than max_producers registered is not rejected as
\* closed: it succeeds unless the thread cannot be created.
C11_ClosedOnlyByCloseOrJoin ==
    /\ []((~joined /\ closeCalls = 0) => ~closed)
    /\ [][(~closed /\ closed') =>
            \/ closeCalls' = closeCalls + 1
            \/ joined' /\ n_producers_closed' = producer_count']_vars
    /\ [][(RegReturns /\ ~joined /\ closeCalls = 0 /\ producer_count < MaxProducers) =>
            lastReg' \in {"none", "eagain"}]_vars

\* max_producers producers have been registered and all have returned
\* before join is entered and before any close(): the channel is open
C11_Witness ==
    /\ ~joined /\ closeCalls = 0 /\ ~closed
    /\ producer_count = MaxProducers
    /\ n_producers_closed = producer_count

\* C12 as stated: a register_producer call made once joined is true is
\* rejected and leaves producer_count unchanged.
C12_NoRegistrationAfterJoin ==
    [][(RegReturns /\ joined) => (lastReg' # "none" /\ RegistersNothing)]_vars

\* C12 as amended: once joined is true a registration succeeds only while
\* the channel is still open and fewer than max_producers are registered
\* (it is made by a producer task or the consumer callback while join waits
\* for the consumer thread); once the channel is closed, which it is when
\* join has joined the consumer thread, every call is rejected and
\* producer_count does not change.
C12_NoRegistrationOnceClosed ==
    /\ [][(RegReturns /\ joined /\ (closed \/ producer_count = MaxProducers)) =>
            (lastReg' \in {"closed", "max"} /\ RegistersNothing)]_vars
    /\ [][(joined /\ producer_count' # producer_count) =>
            /\ ~closed /\ mpc = "joinC"
            /\ producer_count' = producer_count + 1
            /\ lastReg' = "none"]_vars
    /\ [](mpc \in {"joinP", "done"} => closed)

\* a register_producer call made once joined was true, by a producer task
\* or the consumer callback, has just succeeded
C12_Witness ==
    /\ joined /\ mpc = "joinC"
    /\ lastReg = "none"
    /\ producer_count = MaxProducers

\* C13: a register_producer call made with producer_count = max_producers
\* returns MaxProducersReached and creates no thread; producer_count only
\* changes by a successful registration adding one, and never exceeds
\* max_producers.
C13_MaxProducersReached ==
    /\ [](producer_count <= MaxProducers)
    /\ [][(RegReturns /\ producer_count = MaxProducers) =>
            (lastReg' = "max" /\ RegistersNothing)]_vars
    /\ [][(regCalls' = regCalls + 1 /\ producer_count = MaxProducers) => ~Aborted']_vars
    /\ [][(RegReturns /\ lastReg' = "max") => producer_count = MaxProducers]_vars
    /\ [][producer_count' # producer_count =>
            /\ producer_count' = producer_count + 1
            /\ RegReturns /\ lastReg' = "none"]_vars

\* a call was rejected with MaxProducersReached after producers had been
\* registered by the creator and by a producer task or the consumer callback
C13_Witness ==
    /\ lastReg = "max"
    /\ producer_count = MaxProducers
    /\ ~closed

\* C14 as stated: a register_producer call made while closed is true
\* returns Closed, whatever producer_count is, and registers nothing.
C14_ClosedAlwaysReported ==
    [][(RegReturns /\ closed) => (lastReg' = "closed" /\ RegistersNothing)]_vars

\* C14 as amended: a register_producer call made while closed is true
\* registers nothing; it returns Closed when producer_count < max_producers
\* and MaxProducersReached when producer_count = max_producers.
C14_ClosedReportedBelowMax ==
    /\ [][(RegReturns /\ closed) =>
            /\ lastReg' = (IF producer_count = MaxProducers THEN "max" ELSE "closed")
            /\ RegistersNothing]_vars
    /\ [][(regCalls' = regCalls + 1 /\ closed) => ~Aborted']_vars
    /\ [][(RegReturns /\ lastReg' = "closed") => closed]_vars

\* a call was rejected with Closed on a channel closed by close() with one
\* producer registered
C14_Witness ==
    /\ lastReg = "closed"
    /\ closed /\ closeCalls > 0
    /\ producer_count < MaxProducers

\* C15: a register_producer call that returns a rejection
\* (MaxProducersReached, Closed, or ResourceExhausted after a failed thread
\* creation under the report policy) leaves producer_count, producers_done,
\* closed, joined, pending, slot_len, the slot, the wait queue and
\* next_handoff unchanged, creates no thread and returns with the mutex
\* released; a successful call uses the index producer_count, which
\* rejections leave alone; a failed thread creation is only returned under
\* the report policy and ends the process under the abort policy.
C15_RejectedRegistrationFrame ==
    /\ [][(RegReturns /\ lastReg' # "none") =>
            /\ lastReg' \in {"max", "closed", "eagain"}
            /\ UNCHANGED <<producer_count, n_producers_closed, closed, joined,
                           pending_message, n, buffer, producer_waiting_ids_queue,
                           next_waiting_producer_id, ppc>>
            /\ mutex' = NoThread]_vars
    /\ [][(RegReturns /\ lastReg' = "none") =>
            /\ ppc[producer_count] = "unborn"
            /\ ppc'[producer_count] = "task"
            /\ producer_count' = producer_count + 1
            /\ mutex' = NoThread]_vars
    /\ [](lastReg = "eagain" => error_handling_enabled)
    /\ [][(regCalls' = regCalls + 1 /\ Aborted') =>
            /\ ~error_handling_enabled
            /\ producer_count < MaxProducers /\ ~closed
            /\ producer_count' = producer_count]_vars

\* on a channel that was never closed, every register_producer call but the
\* last failed to create the thread and the last has just succeeded, with
\* index 0
C15_Witness ==
    /\ regCalls = MaxRegCalls /\ producer_count = 1 /\ ~closed
    /\ lastReg = "none"
    /\ ppc[0] = "task"

\* C16: a send call with n > buffer_size ends the process, under either
\* policy and whether the channel is open or closed: the step changes
\* neither the slot nor the wait queue, no thread takes a step afterwards,
\* and no send call with n > buffer_size ever waits or returns.
C16_OversizeSendAborts ==
    /\ [](\A i \in Producers :
            /\ curN[i] <= BufSize
            /\ \A k \in 1 .. Len(sends[i]) : sends[i][k].n <= BufSize)
    /\ [][\A i \in Producers : (ppc'[i] = "abort_send" /\ ppc[i] # "abort_send") =>
            /\ ppc[i] = "task"
            /\ UNCHANGED <<chanVars, histVars>>
            /\ \A j \in Producers \ {i} : ppc'[j] \in {"unborn", "exited", "aborted"}
            /\ cpc' \in {"exited", "aborted"}
            /\ mpc' = "aborted"]_vars
    /\ [][~(\E i \in Producers : ppc[i] = "abort_send")]_vars

\* under the report policy a send call with n > buffer_size made on a closed
\* channel has ended the process
C16_Witness ==
    /\ \E i \in Producers : ppc[i] = "abort_send"
    /\ closed
    /\ error_handling_enabled

\* the error callback is invoked in this step
ErrorCallbackInvoked ==
    /\ Len(cbLog') = Len(cbLog) + 1
    /\ cbLog'[Len(cbLog')].kind = "err"

\* C17: under the report policy, when the allocation for a pending message
\* of n > 0 bytes fails, the consumer clears pending, sets slot_len to 0 and
\* invokes the error callback with the mutex released and closed unchanged;
\* this happens at most once per message, the consumer callback is never
\* invoked for that message, and when the error callback returns the
\* consumer thread goes back to the top of its loop.
C17_AllocFailureDrop ==
    /\ [][ErrorCallbackInvoked =>
            /\ error_handling_enabled
            /\ pending_message /\ n > 0
            /\ ~pending_message' /\ n' = 0
            /\ cbLog'[Len(cbLog')].id = slotId
            /\ slotId \in Accepted
            /\ mutex' = NoThread
            /\ closed' = closed
            /\ cpc' = "cb" /\ cbKind' = "err"]_vars
    /\ [][(cpc = "cb" /\ cbKind = "err" /\ cpc' # "cb") => (cpc' = "top" \/ Aborted')]_vars
    /\ [](\A c \in Accepted :
            /\ Cardinality(InvocationsOf("err", c)) <= 1
            /\ Dropped(c) => InvocationsOf("msg", c) = {})

\* the consumer thread is back in its loop, on an open channel, after the
\* error callback returned, and has since delivered another message
C17_Witness ==
    /\ ~closed
    /\ \E j, k \in 1 .. Len(cbLog) :
         j < k /\ cbLog[j].kind = "err" /\ cbLog[k].kind = "msg"

\* C18: under the report policy and fair scheduling, once an allocation
\* failure has dropped a message, every producer blocked in send eventually
\* leaves its send call (elected and accepted while the channel stays open),
\* and once join has been entered the terminal callback fires and join
\* returns.
C18_DeliveryContinuesAfterDrop ==
    /\ \A i \in Producers :
         (Invocations("err") # {} /\ BlockedInSend(i)) ~> ~BlockedInSend(i)
    /\ (Invocations("err") # {} /\ joined) ~> (TerminalFired /\ mpc = "done")

\* C19: when join has returned (the channel is destroyed) the terminal
\* callback has returned and the consumer thread has ended, every registered
\* producer task has returned, been counted done and its thread has ended,
\* whenever it was registered; and no thread takes a step on the channel
\* after join has returned.
C19_DestroyedAfterAllThreads ==
    /\ [](mpc = "done" =>
            /\ cpc = "exited" /\ TerminalFired
            /\ n_producers_closed = producer_count
            /\ \A i \in Producers :
                 IF i < producer_count
                 THEN ppc[i] = "exited" /\ done[i]
                 ELSE ppc[i] = "unborn")
    /\ [][mpc # "done"]_vars

\* join has returned on a channel with max_producers producers, one of them
\* registered by a producer task, after messages were delivered
C19_Witness ==
    /\ mpc = "done"
    /\ producer_count = MaxProducers
    /\ regCalls = MaxProducers
    /\ Invocations("msg") # {}
    /\ \E i \in Producers :
         /\ ops[i] > Len(sends[i])
         /\ \A k \in 1 .. Len(pings) : pings[k].p # i

\* close() was first called by the consumer callback while it handled the
\* first non-terminal message
ClosedInFirstMessage ==
    /\ closeAt > 0
    /\ cbLog[closeAt].kind = "msg"
    /\ \A j \in 1 .. (closeAt - 1) : cbLog[j].kind # "msg"

\* C20 as stated: if the consumer callback calls close() while handling the
\* first non-terminal message, that delivery is the only non-terminal one.
C20_ExactlyOneDelivery ==
    ClosedInFirstMessage => Cardinality(Invocations("msg")) = 1

\* C20 as amended: if the consumer callback calls close() while handling the
\* first non-terminal message, at most one more non-terminal delivery
\* occurs (a message deposited into the slot before close() was called), and
\* it comes before the terminal callback.
C20_AtMostOneMoreDelivery ==
    ClosedInFirstMessage =>
        /\ Cardinality(Invocations("msg")) \in {1, 2}
        /\ \A j \in Invocations("msg") : j >= closeAt
        /\ \A j \in Invocations("term") : \A k \in Invocations("msg") : k < j

\* close() was called in the first delivery, a second message was delivered
\* after it and the terminal callback has fired
C20_Witness ==
    /\ ClosedInFirstMessage
    /\ Cardinality(Invocations("msg")) = 2
    /\ TerminalFired

\* the message of send call c has been taken out of the slot by the consumer
Taken(c) == InvocationsOf("msg", c) # {} \/ Dropped(c)

\* C21: non-terminal deliveries occur in the order in which the messages
\* were deposited into the slot: every delivery is of a deposited message,
\* and when it is delivered every other message deposited so far has already
\* been taken out of the slot; hence the delivered messages of one producer
\* come in the order of its send calls, for any number of producers sending
\* concurrently.
C21_DeliveredInDepositOrder ==
    /\ [](\A j \in Invocations("msg") : cbLog[j].id \in Accepted)
    /\ [](\A j, k \in Invocations("msg") :
            (j < k /\ cbLog[j].id[1] = cbLog[k].id[1]) => cbLog[j].id[2] < cbLog[k].id[2])
    /\ [][\A c \in Accepted : Delivering(c) => \A d \in Accepted \ {c} : Taken(d)]_vars

\* three messages have been delivered, the first and the second send call of
\* one producer and between them a send call of the other producer
C21_Witness ==
    /\ Len(cbLog) = MaxTotalOps
    /\ \A j \in 1 .. MaxTotalOps : cbLog[j].kind = "msg"
    /\ cbLog[1].id[1] # cbLog[2].id[1]
    /\ cbLog[2].id[1] # cbLog[3].id[1]
    /\ cbLog[1].id[2] < cbLog[3].id[2]

\* C22: every consumer callback invocation has well-formed arguments: a
\* non-terminal one has closed = false and 0 <= n <= buffer_size, n bytes of
\* data, and data nil exactly when n = 0; the terminal one has data nil,
\* n = 0 and closed = true.
C22_WellFormedArguments ==
    \A j \in 1 .. Len(cbLog) :
        /\ cbLog[j].kind = "msg" =>
             /\ ~cbLog[j].closed
             /\ cbLog[j].n \in 0 .. BufSize
             /\ Len(cbLog[j].data) = cbLog[j].n
             /\ cbLog[j].nil <=> (cbLog[j].n = 0)
        /\ cbLog[j].kind = "term" =>
             /\ cbLog[j].closed
             /\ cbLog[j].n = 0
             /\ cbLog[j].nil /\ cbLog[j].data = <<>>

\* an empty message, a message of buffer_size bytes and the terminal
\* invocation have been handed to the consumer callback
C22_Witness ==
    /\ \E j \in Invocations("msg") : cbLog[j].n = 0
    /\ \E j \in Invocations("msg") : cbLog[j].n = BufSize /\ BufSize > 0
    /\ TerminalFired

\* mpsc_create has handled a failure that one of its steps returned to it
CreateFailureHandled == mpc \in {"create_null", "crashed"}

\* C23: when mpsc_create fails at an allocation or initialisation step under
\* the report policy, exactly the resources acquired before the failing
\* step are released, each exactly once, no buffer that was never allocated
\* is freed, no mutex or condition variable that was never initialised is
\* destroyed, and the result is an absent (null) channel.
C23_CreateFailureUnwinds ==
    CreateFailureHandled =>
        /\ error_handling_enabled
        /\ mpc = "create_null"
        /\ \A k \in AllSteps : released[k] = (IF k \in acquired THEN 1 ELSE 0)
        /\ wildFree = {}

\* C24: under the report policy a failure with ENOMEM or EAGAIN at any step
\* of mpsc_create (malloc, pthread_cond_init, pthread_mutex_init,
\* pthread_create) makes it return an absent channel with errno set to that
\* cause, and never ends the process; under the abort policy the same
\* failure ends the process with the diagnostic.
C24_CreateFailureReported ==
    (fault # NoFault /\ fault.cause \in {"ENOMEM", "EAGAIN"} /\ mpc # "create") =>
        IF error_handling_enabled
        THEN mpc = "create_null" /\ errno = fault.cause
        ELSE mpc = "abort_create"

\* C25: a call of join on a channel on which no producer has been
\* successfully registered ends the process, under either error policy: the
\* call never goes on to wait for the consumer thread, the channel is not
\* closed by it, and no thread takes a step afterwards.
C25_JoinWithoutProducerAborts ==
    /\ [][(~joined /\ joined' /\ producer_count = 0) =>
            /\ mpc = "run" /\ mpc' = "abort_empty"
            /\ cpc' = "aborted"
            /\ closed' = closed]_vars
    /\ [](mpc \in {"joinC", "joinP", "done"} => producer_count > 0)
    /\ [](mpc = "abort_empty" => (producer_count = 0 /\ ~closed))
    /\ [][mpc # "abort_empty"]_vars

\* under the report policy every registration failed to create its thread
\* and the creator then called join
C25_Witness ==
    /\ mpc = "abort_empty"
    /\ error_handling_enabled
    /\ regCalls = MaxRegCalls

\* a call of mpsc_join is made in this step on a channel on which mpsc_join
\* has been called before
SecondJoinCall == joinCalls' = joinCalls + 1 /\ joinCalls >= 1

\* C26: a call of join on a channel on which join has been called before
\* always ends the process with a diagnostic (abort), both while the earlier
\* call is still in progress and after it has returned.
C26_SecondJoinAborts ==
    [][SecondJoinCall =>
         \/ mpc' \in {"abort_join", "abort_thread", "abort_lock"}
         \/ cpc' \in {"abort_join", "abort_thread"}
         \/ \E i \in Producers : ppc'[i] \in {"abort_join", "abort_thread"}]_vars

\* the step copies a message into the slot (mpsc.c:335-339): a send call is in
\* the slot that was not in it before, or the bytes of the slot change
SlotWritten == (slotId' # slotId /\ slotId' # NoId) \/ buffer' # buffer

\* the step is the consumer's that takes the message of the slot out
\* (mpsc.c:597-612): the callback it enters carries the send call of the slot
SlotTaken ==
    /\ Len(cbLog') = Len(cbLog) + 1
    /\ cbLog'[Len(cbLog')].kind \in {"msg", "err"}
    /\ cbLog'[Len(cbLog')].id = slotId

\* C27: the slot is written only when no message is pending: a producer,
\* whether it arrives and takes the direct path or was waiting and has been
\* elected, copies its message into the slot only in a state in which
\* pending_message is false and no send call's message is in the slot; a
\* message is pending exactly while a send call's message is in the slot, and
\* it leaves the slot only by the consumer taking it, so no accepted message
\* is overwritten before the consumer has taken it.
C27_SlotWrittenOnlyWhenFree ==
    /\ [](pending_message <=> slotId # NoId)
    /\ [][SlotWritten => ~pending_message /\ slotId = NoId /\ pending_message']_vars
    /\ [][slotId # NoId /\ slotId' # slotId => slotId' = NoId /\ SlotTaken]_vars

\* an elected waiter's message is in the slot, after an earlier message of
\* another send call was delivered
C27_Witness ==
    /\ pending_message
    /\ \E k \in 1 .. Len(enq) : enq[k] = slotId
    /\ \E j \in Invocations("msg") : cbLog[j].id # slotId

\* C28: no arrival overtakes a queued producer: in every state in which the
\* channel is open and the wait queue is not empty, a message is pending or a
\* waiter is elected, so that a producer entering send is made to queue
\* (mpsc.c:309); on every path of the consumer loop, the one after a failed
\* allocation under the report policy included.
C28_QueuedProducersBlockArrivals ==
    ~closed /\ producer_waiting_ids_queue # <<>>
        => pending_message \/ next_waiting_producer_id # NoProducer

\* mpsc_join was called and every registered producer is counted done
AllDoneAndJoined ==
    joined /\ producer_count > 0 /\ n_producers_closed = producer_count

\* the step is the one that makes AllDoneAndJoined true: mpsc_join marking
\* the channel joined (mpsc.c:207) after the last producer was counted, or
\* mpsc_producer_done counting the last producer (358) after the join
ClosingStep == ~AllDoneAndJoined /\ AllDoneAndJoined'

\* the step takes out of the slot a message that was pending in a channel
\* closed without a call of mpsc_consumer_close
TakesPendingAtClosure ==
    closed /\ closeCalls = 0 /\ pending_message /\ ~pending_message'

\* C29 as stated: the closure by join and producer completion is never
\* missed, whichever comes last: the step that completes "joined and every
\* producer done" sets closed and signals the consumer, and the consumer
\* eventually issues the terminal callback, having delivered a pending
\* message to the consumer callback.
C29_ClosureDeliversPending ==
    /\ [](AllDoneAndJoined => closed)
    /\ [][ClosingStep => closed' /\ (cpc = "wait" => cpc' = "woken")]_vars
    /\ AllDoneAndJoined ~> (TerminalFired /\ ~pending_message)
    /\ [][TakesPendingAtClosure => Delivering(slotId)]_vars

\* C29 as amended: the closure by join and producer completion is never
\* missed, whichever comes last: the step that completes "joined and every
\* producer done" sets closed and signals the consumer; the consumer
\* eventually issues the terminal callback with no message left in the slot,
\* having taken a pending message out of it and delivered it to the consumer
\* callback or, under the report policy when the allocation of the copy of
\* its n > 0 bytes fails, reported it to the error callback.
C29_ClosureNeverMissed ==
    /\ [](AllDoneAndJoined => closed)
    /\ [][ClosingStep => closed' /\ (cpc = "wait" => cpc' = "woken")]_vars
    /\ AllDoneAndJoined ~> (TerminalFired /\ ~pending_message)
    /\ [][TakesPendingAtClosure =>
            /\ SlotTaken
            /\ \/ Delivering(slotId)
               \/ error_handling_enabled /\ n > 0]_vars

\* the channel of MaxProducers producers was closed by join and producer
\* completion alone, and the terminal callback has been issued after a delivery
C29_Witness ==
    /\ AllDoneAndJoined /\ closeCalls = 0
    /\ producer_count = MaxProducers
    /\ TerminalFired
    /\ Invocations("msg") # {}

\* the step elects a producer: next_waiting_producer_id is given a
\* producer's index (mpsc.c:615)
Elects ==
    /\ next_waiting_producer_id' # next_waiting_producer_id
    /\ next_waiting_producer_id' # NoProducer

\* C30: in every reachable state next_waiting_producer_id is none or the
\* index at the head of the wait queue; it is given a producer's index only
\* by the consumer, in the pass in which it delivers a message, and only when
\* the wait queue is not empty, the channel is open and no producer is
\* elected.
C30_ElectedIsHeadOfQueue ==
    /\ [](\/ next_waiting_producer_id = NoProducer
          \/ /\ producer_waiting_ids_queue # <<>>
             /\ next_waiting_producer_id = Head(producer_waiting_ids_queue))
    /\ [][Elects =>
            /\ Delivering(slotId)
            /\ producer_waiting_ids_queue # <<>>
            /\ ~closed
            /\ next_waiting_producer_id = NoProducer]_vars

\* a producer is elected while two producers are in the wait queue
C30_Witness ==
    /\ next_waiting_producer_id # NoProducer
    /\ Len(producer_waiting_ids_queue) = 2
    /\ ~closed

\* the step removes the head of the wait queue or clears the election
\* (mpsc.c:412-428)
Shifts ==
    \/ Len(producer_waiting_ids_queue') < Len(producer_waiting_ids_queue)
    \/ next_waiting_producer_id # NoProducer /\ next_waiting_producer_id' = NoProducer

\* the step is producer i's, returning true from a send call in which it
\* waited, and removes i's own entry, the head, from the wait queue
ShiftsOwnEntry(i) ==
    /\ ppc[i] = "woken" /\ ppc'[i] = "task"
    /\ Len(sends'[i]) = Len(sends[i]) + 1 /\ sends'[i][Len(sends'[i])].ok
    /\ producer_waiting_ids_queue # <<>>
    /\ Head(producer_waiting_ids_queue) = i
    /\ next_waiting_producer_id = i
    /\ ~closed /\ ~closed'
    /\ producer_waiting_ids_queue' = Tail(producer_waiting_ids_queue)
    /\ next_waiting_producer_id' = NoProducer

\* C31: the head of the wait queue is removed, and the election cleared,
\* only by the producer whose own index is at the head of the queue and is
\* the elected one, and only with the channel open: a producer woken by the
\* closure does not shift the queue, no producer removes another's entry,
\* and the queue changes in no other way than by this shift and by the
\* subscription of an arrival at its end.
C31_ShiftOnlyByElectedHead ==
    /\ [][Shifts => \E i \in Producers : ShiftsOwnEntry(i)]_vars
    /\ [][producer_waiting_ids_queue' # producer_waiting_ids_queue =>
            \/ \E i \in Producers : ShiftsOwnEntry(i)
            \/ \E i \in Producers :
                 /\ ppc[i] = "task"
                 /\ producer_waiting_ids_queue' = Append(producer_waiting_ids_queue, i)]_vars

\* the elected producer has shifted its own entry out of a queue of two and
\* deposited its message; the other producer's entry is still queued
C31_Witness ==
    /\ pending_message /\ ~closed
    /\ \E k \in 1 .. Len(enq) : enq[k] = slotId
    /\ Len(producer_waiting_ids_queue) = 1
    /\ producer_waiting_ids_queue[1] # slotId[1]
    /\ next_waiting_producer_id = NoProducer

\* producer i's index is in the wait queue
InQueue(i) == \E k \in 1 .. Len(producer_waiting_ids_queue) : producer_waiting_ids_queue[k] = i

\* C32 as stated: while the process runs, the wait queue holds exactly the
\* indices of the producers blocked inside send: a producer's index is in
\* the queue iff it has enqueued itself and its send call has not returned;
\* after a send has returned false following closure the producer's index
\* is no longer in the queue.
C32_QueueIsBlockedProducers ==
    ~Aborted => \A i \in Producers : InQueue(i) <=> BlockedInSend(i)

\* C32 as amended: while the process runs, every producer blocked inside
\* send has its index in the wait queue; while the channel is open the queue
\* holds no other index; once the channel is closed the queue also keeps the
\* index of every producer whose blocked send call has returned false, that
\* call being the producer's last.
C32_QueueHoldsBlockedProducers ==
    ~Aborted =>
        \A i \in Producers :
            /\ BlockedInSend(i) => InQueue(i)
            /\ InQueue(i) /\ ~closed => BlockedInSend(i)
            /\ InQueue(i) /\ closed => BlockedInSend(i) \/ LastSendRefused(i)

\* the channel is closed and the index of a producer whose send call has
\* returned false is in the queue, behind which another producer is still
\* blocked
C32_Witness ==
    /\ closed /\ ~Aborted
    /\ Len(producer_waiting_ids_queue) = 2
    /\ LastSendRefused(producer_waiting_ids_queue[1])
    /\ BlockedInSend(producer_waiting_ids_queue[2])

\* C33: in every reachable state the wait queue holds pairwise distinct
\* producer indices, each the index of a registered producer
\* (0 .. producer_count - 1), and is at most n_max_producers long.
C33_QueueDistinctInRange ==
    /\ Len(producer_waiting_ids_queue) <= MaxProducers
    /\ \A k \in 1 .. Len(producer_waiting_ids_queue) :
          /\ producer_waiting_ids_queue[k] \in 0 .. (producer_count - 1)
          /\ \A l \in 1 .. Len(producer_waiting_ids_queue) :
                producer_waiting_ids_queue[k] = producer_waiting_ids_queue[l] => k = l

\* the queue is full: every one of the n_max_producers producers is in it,
\* after a producer has been through the queue once already
C33_Witness ==
    /\ Len(producer_waiting_ids_queue) = MaxProducers
    /\ \E i \in Producers : \E k \in 1 .. Len(sends[i]) : sends[i][k].ok
    /\ Invocations("msg") # {}

\* the registered producers marked done
DoneProducers == {i \in 0 .. (producer_count - 1) : done[i]}

\* the step is the return of producer i's task, counted (mpsc.c:353-358)
CountsDone(i) ==
    /\ i < producer_count
    /\ ppc[i] = "task" /\ ppc'[i] = "exited"
    /\ ~done[i] /\ done'[i]
    /\ n_producers_closed' = n_producers_closed + 1

\* C34: in every reachable state n_producers_closed <= producer_count <=
\* n_max_producers; the return of each producer task increments
\* n_producers_closed exactly once: the counter is the number of registered
\* producers marked done, it changes only by the step in which a task that
\* was not marked done returns, and every task that has returned is marked.
C34_DoneCountedOnce ==
    /\ [](/\ 0 <= n_producers_closed
          /\ n_producers_closed <= producer_count
          /\ producer_count <= MaxProducers
          /\ n_producers_closed = Cardinality(DoneProducers)
          /\ \A i \in Producers : ppc[i] = "exited" => i \in DoneProducers)
    /\ [][n_producers_closed' # n_producers_closed =>
             \E i \in Producers : CountsDone(i)]_vars
    /\ [][\A i \in Producers : ppc[i] = "task" /\ ppc'[i] = "exited" => CountsDone(i)]_vars

\* every one of n_max_producers producers has returned and been counted
C34_Witness ==
    /\ producer_count = MaxProducers
    /\ n_producers_closed = MaxProducers
    /\ \A i \in Producers : ppc[i] = "exited"
    /\ ~Aborted

\* C35: in every reachable state 0 <= n <= buffer_size, and n = 0 whenever
\* no message is pending: the consumer resets n together with
\* pending_message when it delivers a message and when it drops one.
C35_SlotLenBounded ==
    /\ n \in 0 .. BufSize
    /\ ~pending_message => n = 0

\* no message is pending after the consumer has delivered a message of
\* buffer_size bytes and has dropped another
C35_Witness ==
    /\ ~pending_message /\ n = 0
    /\ \E j \in Invocations("msg") : cbLog[j].n = BufSize
    /\ Invocations("err") # {}

\* the non-terminal invocations (of the consumer callback or of the error
\* callback) made after the one in which mpsc_consumer_close was first called
FurtherInvocations ==
    {j \in 1 .. Len(cbLog) : j > closeAt /\ cbLog[j].kind # "term"}

\* C36: after a callback has called mpsc_consumer_close, at most one further
\* non-terminal invocation occurs, that of the message that was in the slot,
\* and the terminal callback comes after it, as the last invocation; no
\* message is copied into the slot once closed is true, and the consumer
\* elects no waiting producer once closed is true.
C36_AfterCloseAtMostOneMore ==
    /\ [](closeAt > 0 =>
            /\ Cardinality(FurtherInvocations) <= 1
            /\ \A j \in FurtherInvocations : cbLog[j].id \in Accepted
            /\ \A j \in Invocations("term") : j = Len(cbLog) /\ j >= closeAt)
    /\ [][closeAt > 0 /\ Len(cbLog') > Len(cbLog) /\ cbLog'[Len(cbLog')].kind # "term"
            => pending_message /\ cbLog'[Len(cbLog')].id = slotId]_vars
    /\ [][SlotWritten => ~closed /\ ~closed']_vars
    /\ [][Elects => ~closed /\ ~closed']_vars

\* mpsc_consumer_close was called by the consumer callback with a second
\* message in the slot and a producer waiting; the second message has been
\* delivered, the waiting producer was refused and the terminal callback has
\* been issued
C36_Witness ==
    /\ closeAt > 0 /\ cbLog[closeAt].kind = "msg"
    /\ Cardinality(FurtherInvocations) = 1
    /\ TerminalFired
    /\ Refused # {}
    /\ producer_waiting_ids_queue # <<>>

\* the invocations in which the consumer thread hands over a message it took
\* out of the slot: delivered to the consumer callback or, dropped, reported
\* to the error callback
TakenOut == Invocations("msg") \cup Invocations("err")

\* C37: the channel is single-slot: the number of send calls that have
\* returned true minus the number of messages the consumer thread has taken
\* out of the slot is 0 or 1 in every reachable state, and is 1 exactly when
\* a message is pending; so while the consumer callback handles a message at
\* most one later message has been accepted.
C37_SingleSlot ==
    /\ Cardinality(Accepted) - Cardinality(TakenOut) \in {0, 1}
    /\ pending_message <=> Cardinality(Accepted) = Cardinality(TakenOut) + 1

\* the consumer callback is handling a message while the next accepted
\* message is in the slot and a producer is blocked behind it
C37_Witness ==
    /\ cpc = "cb" /\ cbKind = "msg"
    /\ pending_message
    /\ Cardinality(Accepted) = Cardinality(TakenOut) + 1
    /\ \E i \in Producers : BlockedInSend(i)

\* producer i's task is about to call send on an open channel whose slot is
\* not available: the call will subscribe to the wait queue (mpsc.c:309-311)
AboutToSubscribe(i) == ppc[i] = "task" /\ ~closed /\ SendMustWait

\* producer i, in its wait loop, is elected on an open channel: when it runs
\* it will shift the wait queue (mpsc.c:317-333)
AboutToShift(i) == BlockedInSend(i) /\ ~closed /\ next_waiting_producer_id = i

\* C38: with every producer handle used by its own task thread only, the
\* fatal conditions of the send path are unreachable: no thread ends in the
\* abort of mpsc_producer_subscribe_to_wait_queue (producer not found, queue
\* already holding n_max_producers entries) or of
\* mpsc_shift_producer_wait_queue (empty queue), and no state is reached in
\* which a send call that is about to subscribe or to shift would meet one.
C38_SendPathNeverAborts ==
    \A i \in Producers :
        /\ ppc[i] \notin {"abort_subscribe", "abort_shift"}
        /\ AboutToSubscribe(i) => ~SubscribeAborts(producer_waiting_ids_queue, i)
        /\ AboutToShift(i) => ~ShiftAborts(producer_waiting_ids_queue)

\* the queue holds n_max_producers entries, the last subscribed by a
\* producer that had been elected before and had shifted the queue to deposit
\* the message now in the slot
C38_Witness ==
    /\ Len(producer_waiting_ids_queue) = MaxProducers
    /\ \E k \in 1 .. Len(enq) : enq[k] = slotId
    /\ pending_message /\ ~closed /\ ~Aborted

====
